---- MODULE Spec2Model ----
(***************************************************************************)
(* Model of the iTop -> Elasticsearch synchronizer (main.go and the iTop   *)
(* fetch helpers).  The specifications share the pure operators:           *)
(*   Spec       the sync loop (syncLoop) against a changing ticket source  *)
(*              and a sink index whose reads and writes may fail;          *)
(*   SpecRetry  the same loop, recording the writes that failed in the     *)
(*              previous cycle instead of its target;                      *)
(*   FairSpec   Spec with every step of the loop eventually taken;         *)
(*   SpecTeams  concurrent calls of FetchPersonTeams sharing the cache,    *)
(*              its lock and the rate limiter;                             *)
(*   SpecSLA    mapTicketToES applied to every combination of durations    *)
(*              and thresholds within the bounds.                          *)
(* Durations and thresholds are whole seconds.  The values returned by the *)
(* calls mapTicketToES makes into packages outside these files             *)
(* (utils.CalculateBusinessHourDuration, itop.GetSLTDeadlineCached,        *)
(* itop.FetchPersonTeams) are inputs of the model, gathered in the record  *)
(* x that accompanies a ticket.                                            *)
(***************************************************************************)
EXTENDS Integers, Sequences, FiniteSets, TLC

\* SpecSLA: the inputs of one mapTicketToES call and its result
VARIABLES slaIn, slaOut

\* the world outside the process
VARIABLES
    world,        \* the iTop objects: <<class, id>> -> version, or Absent
    creds,        \* ITOP_API_URL, ITOP_API_USER and ITOP_API_PWD are all set
    sink          \* the Elasticsearch index: a set of [id, source] documents

\* syncLoop: position and the locals of one iteration
VARIABLES
    pc,           \* "start", "recv", "read", "sync", "delete", "sleep"
    fetchPc,      \* per class, the fetch goroutine: "none", "running", "done"
    ch,           \* the buffered result channel
    i,            \* results received so far
    allTickets,   \* tickets of the classes fetched without error
    esTicketMap,  \* identity-hash -> ESTicket, entries removed as accounted
    k,            \* tickets of allTickets already synced
    ranged        \* keys of esTicketMap the delete loop has visited

\* history of the cycle under way and a summary of the one before
VARIABLES
    snapshot,     \* esTicketMap as built from the sink read
    sink0,        \* the sink when the cycle started
    upserted,     \* document ids for which the cycle called upsertESTicket
    deleted,      \* document ids for which the cycle called deleteESTicket
    fetchErr,     \* classes whose result carried an error
    readOK,       \* the sink read of the cycle succeeded
    writeFail,    \* some upsert or delete of the cycle failed
    failed,       \* document ids whose upsert or delete failed in the cycle
    prevTarget,   \* target of the previous cycle, kept when it was clean
    prevClean,    \* the previous cycle had no error at all
    prevFailed,   \* failed of the previous cycle: document id -> the
                  \* document whose upsert failed, << >> for a failed delete
    unhealed      \* a fetch has failed since the last clean cycle

\* FetchPersonTeams: the package state and, per caller, the call under way
VARIABLES
    personTeamCache,  \* person name -> cached team list
    readers,          \* callers holding personTeamCacheMutex for reading
    writer,           \* the caller holding it for writing, or NoOne
    tick,             \* ticks waiting in rateLimiter.C (capacity 1)
    ptPc,             \* per caller: position in FetchPersonTeams
    ptName,           \* per caller: personName
    ptVal,            \* per caller: the value about to be cached
    ptRet             \* per caller: what the call returns, or NoRet

\* history of the call under way and of the rate-limit interval under way
VARIABLES
    ptResp,           \* per caller: the answer its remote lookup got
    ptTok,            \* per caller: tokens the call has taken
    ptPosts,          \* per caller: remote lookups the call has issued
    ptWrote,          \* per caller: the call has written the cache
    ptHad,            \* per caller: the cache held the name when the call began
    everCached,       \* the names ever stored in the cache
    intervalAcq,      \* tokens taken since the last tick
    intervalPosts     \* remote lookups issued since the last tick

teamVars == << personTeamCache, readers, writer, tick, ptPc, ptName, ptVal,
              ptRet, ptResp, ptTok, ptPosts, ptWrote, ptHad, everCached,
              intervalAcq, intervalPosts >>

\* ------------------------------------------------------------------ bounds
\* largest duration / threshold (seconds) drawn as an input of mapTicketToES
MaxDur == 2

\* the number of concurrent callers of FetchPersonTeams
MaxCallers == 2

\* ------------------------------------------------------ program constants
\* size=10000 of the _search request
SearchSize == 10000

\* ------------------------------------------------------- pure: identities
\* sha1 is collision free on the strings it is given here, so the digest is
\* modelled by the string that is hashed.
hashTicketKey(id, ref, class) == id \o ":" \o ref \o ":" \o class

priorityLabel(id) ==
    CASE id = "1" -> "Critical"
      [] id = "2" -> "High"
      [] id = "3" -> "Medium"
      [] id = "4" -> "Low"
      [] OTHER    -> id

\* ------------------------------------------------ pure: compliance blocks
slaComplianceResponseRaw(slt, ttoRaw) ==
    IF slt.TTO > 0 /\ ttoRaw > 0
    THEN IF ttoRaw <= slt.TTO THEN "comply" ELSE "overdue"
    ELSE ""

slaComplianceResolveRaw(slt, ttrRaw) ==
    IF slt.TTR > 0 /\ ttrRaw > 0
    THEN IF ttrRaw <= slt.TTR THEN "comply" ELSE "overdue"
    ELSE ""

slaComplianceResponseBH(slt, ttoBH, ttoRaw) ==
    IF slt.TTO > 0
    THEN IF (ttoBH > 0 /\ ttoBH <= slt.TTO)
            \/ (ttoBH = 0 /\ ttoRaw > 0 /\ ttoRaw <= slt.TTO)
         THEN "comply"
         ELSE IF ttoBH > 0 THEN "overdue" ELSE ""
    ELSE ""

\* the comparison with the threshold made strict
slaComplianceResolveBH_Strict(slt, ttrBH, ttrRaw) ==
    IF slt.TTR > 0
    THEN IF (ttrBH > 0 /\ ttrBH < slt.TTR)
            \/ (ttrBH = 0 /\ ttrRaw > 0 /\ ttrRaw <= slt.TTR)
         THEN "comply"
         ELSE IF ttrBH > 0 THEN "overdue" ELSE ""
    ELSE ""

slaComplianceResolveBH(slt, ttrBH, ttrRaw) ==
    IF slt.TTR > 0
    THEN IF (ttrBH > 0 /\ ttrBH <= slt.TTR)
            \/ (ttrBH = 0 /\ ttrRaw > 0 /\ ttrRaw <= slt.TTR)
         THEN "comply"
         ELSE IF ttrBH > 0 THEN "overdue" ELSE ""
    ELSE ""

\* the fallback without its test that the raw duration is positive
slaComplianceResponse24BH_NoRawTest(slt, tto24BH, ttoRaw) ==
    IF slt.TTO > 0
    THEN IF (tto24BH > 0 /\ tto24BH <= slt.TTO)
            \/ (tto24BH = 0 /\ ttoRaw <= slt.TTO)
         THEN "comply"
         ELSE IF tto24BH > 0 THEN "overdue" ELSE ""
    ELSE ""

slaComplianceResponse24BH(slt, tto24BH, ttoRaw) ==
    IF slt.TTO > 0
    THEN IF (tto24BH > 0 /\ tto24BH <= slt.TTO)
            \/ (tto24BH = 0 /\ ttoRaw > 0 /\ ttoRaw <= slt.TTO)
         THEN "comply"
         ELSE IF tto24BH > 0 THEN "overdue" ELSE ""
    ELSE ""

slaComplianceResolve24BH(slt, ttr24BH, ttrRaw) ==
    IF slt.TTR > 0
    THEN IF (ttr24BH > 0 /\ ttr24BH <= slt.TTR)
            \/ (ttr24BH = 0 /\ ttrRaw > 0 /\ ttrRaw <= slt.TTR)
         THEN "comply"
         ELSE IF ttr24BH > 0 THEN "overdue" ELSE ""
    ELSE ""

\* ---------------------------------------------------- pure: record mapping
\* The zero time.Time is 0; a nil *time.Time is NoTime.
NoTime == -1

datePtr(d) == IF d = 0 THEN NoTime ELSE d

\* t is an itop.Ticket; x holds what the calls made while mapping return:
\* ttrBH, ttoBH, ttr24BH, tto24BH (CalculateBusinessHourDuration),
\* callerTeam (FetchPersonTeams) and slt (GetSLTDeadlineCached).
\* Fields copied verbatim and not modelled: Urgency, Impact (labelled as
\* Priority is), ServiceID, Service, ServiceSubcategory, AgentID, Agent,
\* TeamID, Team, Origin.
mapTicketToES(t, x) ==
    LET ttrRaw == t.TimeToResolve
        ttoRaw == t.TimeToResponse
        callerTeam == IF t.Caller # "" THEN x.callerTeam ELSE "-"
    IN [ ID |-> t.ID,
         Ref |-> t.Ref,
         Class |-> t.Class,
         Title |-> t.Title,
         Status |-> t.Status,
         Priority |-> priorityLabel(t.Priority),
         Caller |-> t.Caller,
         CallerTeam |-> callerTeam,
         StartDate |-> datePtr(t.StartDate),
         AssignmentDate |-> datePtr(t.AssignmentDate),
         ResolutionDate |-> datePtr(t.ResolutionDate),
         TimeToResponseRaw |-> ttoRaw,
         TimeToResolveRaw |-> ttrRaw,
         SLAComplianceResponseRaw |-> slaComplianceResponseRaw(x.slt, ttoRaw),
         SLAComplianceResolveRaw |-> slaComplianceResolveRaw(x.slt, ttrRaw),
         TimeToResponseBusinessHr |-> x.ttoBH,
         TimeToResolveBusinessHr |-> x.ttrBH,
         SLAComplianceResponseBusinessHour |->
             slaComplianceResponseBH(x.slt, x.ttoBH, ttoRaw),
         SLAComplianceResolveBusinessHour |->
             slaComplianceResolveBH(x.slt, x.ttrBH, ttrRaw),
         TimeToResponse24BH |-> x.tto24BH,
         TimeToResolve24BH |-> x.ttr24BH,
         SLAComplianceResponse24BH |->
             slaComplianceResponse24BH(x.slt, x.tto24BH, ttoRaw),
         SLAComplianceResolve24BH |->
             slaComplianceResolve24BH(x.slt, x.ttr24BH, ttrRaw) ]

\* ------------------------------------------------------------- pure: JSON
\* encoding/json writes the members in struct order and as text; the three
\* time pointers are omitempty.  A document is the sequence of its
\* <<name, text>> members.
Decimals == 0 .. 9

Num(n) == ToString(n)

ParseNum(s) == CHOOSE n \in Decimals : ToString(n) = s

Opt(name, d) == IF d = NoTime THEN << >> ELSE << << name, Num(d) >> >>

Marshal(e) ==
    << << "id", e.ID >>, << "ref", e.Ref >>, << "class", e.Class >>,
       << "title", e.Title >>, << "status", e.Status >>,
       << "priority", e.Priority >>,
       << "caller_id_friendlyname", e.Caller >>,
       << "caller_team", e.CallerTeam >> >>
    \o Opt("start_date", e.StartDate)
    \o Opt("assignment_date", e.AssignmentDate)
    \o Opt("resolution_date", e.ResolutionDate)
    \o << << "time_to_response_raw", Num(e.TimeToResponseRaw) >>,
          << "time_to_resolve_raw", Num(e.TimeToResolveRaw) >>,
          << "sla_compliance_response_raw", e.SLAComplianceResponseRaw >>,
          << "sla_compliance_resolve_raw", e.SLAComplianceResolveRaw >>,
          << "time_to_response_business_hour",
             Num(e.TimeToResponseBusinessHr) >>,
          << "time_to_resolve_business_hour",
             Num(e.TimeToResolveBusinessHr) >>,
          << "sla_compliance_response_bussiness_hour",
             e.SLAComplianceResponseBusinessHour >>,
          << "sla_compliance_resolve_bussiness_hour",
             e.SLAComplianceResolveBusinessHour >>,
          << "time_to_response_24bh", Num(e.TimeToResponse24BH) >>,
          << "time_to_resolve_24bh", Num(e.TimeToResolve24BH) >>,
          << "sla_compliance_response_24bh", e.SLAComplianceResponse24BH >>,
          << "sla_compliance_resolve_24bh", e.SLAComplianceResolve24BH >> >>

Has(j, name) == \E n \in 1 .. Len(j) : j[n][1] = name

Val(j, name) == j[CHOOSE n \in 1 .. Len(j) : j[n][1] = name][2]

\* json.Unmarshal into a zero ESTicket: a member that is missing leaves the
\* zero value of its field
Unmarshal(j) ==
    LET Str(name) == IF Has(j, name) THEN Val(j, name) ELSE ""
        Flt(name) == IF Has(j, name) THEN ParseNum(Val(j, name)) ELSE 0
        Tim(name) == IF Has(j, name) THEN ParseNum(Val(j, name)) ELSE NoTime
    IN [ ID |-> Str("id"),
         Ref |-> Str("ref"),
         Class |-> Str("class"),
         Title |-> Str("title"),
         Status |-> Str("status"),
         Priority |-> Str("priority"),
         Caller |-> Str("caller_id_friendlyname"),
         CallerTeam |-> Str("caller_team"),
         StartDate |-> Tim("start_date"),
         AssignmentDate |-> Tim("assignment_date"),
         ResolutionDate |-> Tim("resolution_date"),
         TimeToResponseRaw |-> Flt("time_to_response_raw"),
         TimeToResolveRaw |-> Flt("time_to_resolve_raw"),
         SLAComplianceResponseRaw |-> Str("sla_compliance_response_raw"),
         SLAComplianceResolveRaw |-> Str("sla_compliance_resolve_raw"),
         TimeToResponseBusinessHr |-> Flt("time_to_response_business_hour"),
         TimeToResolveBusinessHr |-> Flt("time_to_resolve_business_hour"),
         SLAComplianceResponseBusinessHour |->
             Str("sla_compliance_response_bussiness_hour"),
         SLAComplianceResolveBusinessHour |->
             Str("sla_compliance_resolve_bussiness_hour"),
         TimeToResponse24BH |-> Flt("time_to_response_24bh"),
         TimeToResolve24BH |-> Flt("time_to_resolve_24bh"),
         SLAComplianceResponse24BH |-> Str("sla_compliance_response_24bh"),
         SLAComplianceResolve24BH |-> Str("sla_compliance_resolve_24bh") ]

\* a == b on the structs: the time fields are pointers, equal only when
\* both are nil
compareESTicket_Pointers(a, b) ==
    /\ Marshal(a) = Marshal(b)
    /\ a.StartDate = NoTime /\ a.AssignmentDate = NoTime
    /\ a.ResolutionDate = NoTime

\* a comparison of the fields copied from the source only
compareESTicket_SourceFields(a, b) ==
    /\ a.ID = b.ID /\ a.Ref = b.Ref /\ a.Class = b.Class
    /\ a.Title = b.Title /\ a.Status = b.Status /\ a.Priority = b.Priority
    /\ a.Caller = b.Caller /\ a.StartDate = b.StartDate
    /\ a.AssignmentDate = b.AssignmentDate
    /\ a.ResolutionDate = b.ResolutionDate
    /\ a.TimeToResponseRaw = b.TimeToResponseRaw
    /\ a.TimeToResolveRaw = b.TimeToResolveRaw

compareESTicket(a, b) == Marshal(a) = Marshal(b)

\* ----------------------------------------------------- the sink's interface
\* Each call takes the index and whether the HTTP exchange succeeds, and
\* gives the index afterwards (or what is read).  A failed write leaves the
\* index as it was.
DocId(t) == hashTicketKey(t.ID, t.Ref, t.Class)

\* the document id taken from the status instead of the class
upsertESTicket_StatusId(index, t, ok) ==
    LET id == hashTicketKey(t.ID, t.Ref, t.Status)
        data == Marshal(t)
    IN IF ok
       THEN { d \in index : d.id # id } \cup { [ id |-> id, source |-> data ] }
       ELSE index

upsertESTicket(index, t, ok) ==
    LET id == hashTicketKey(t.ID, t.Ref, t.Class)
        data == Marshal(t)
    IN IF ok
       THEN { d \in index : d.id # id } \cup { [ id |-> id, source |-> data ] }
       ELSE index

\* the document id built with id and ref exchanged
deleteESTicket_SwappedId(index, t, ok) ==
    LET id == hashTicketKey(t.Ref, t.ID, t.Class)
    IN IF ok THEN { d \in index : d.id # id } ELSE index

deleteESTicket(index, t, ok) ==
    LET id == hashTicketKey(t.ID, t.Ref, t.Class)
    IN IF ok THEN { d \in index : d.id # id } ELSE index

\* a read that gives the hits whether or not the request succeeds
fetchAllESTickets_IgnoreFailure(index, ok) ==
    IF FALSE
    THEN { {} }
    ELSE IF Cardinality(index) <= SearchSize
         THEN { { Unmarshal(d.source) : d \in index } }
         ELSE { { Unmarshal(d.source) : d \in hits } :
                  hits \in { h \in SUBSET index :
                               Cardinality(h) = SearchSize } }

\* the possible results of one read: nothing when the request fails, else
\* the _source of every hit, at most SearchSize of them
fetchAllESTickets(index, ok) ==
    IF ~ok
    THEN { {} }
    ELSE IF Cardinality(index) <= SearchSize
         THEN { { Unmarshal(d.source) : d \in index } }
         ELSE { { Unmarshal(d.source) : d \in hits } :
                  hits \in { h \in SUBSET index :
                               Cardinality(h) = SearchSize } }

\* lines 135-138: the map from identity-hash to the ticket read
BuildMap(esTickets) ==
    [ h \in { hashTicketKey(t.ID, t.Ref, t.Class) : t \in esTickets } |->
        CHOOSE t \in esTickets : hashTicketKey(t.ID, t.Ref, t.Class) = h ]

\* the entry left in the map
Without_Kept(m, key) == m

\* delete(esTicketMap, key)
Without(m, key) == [ h \in DOMAIN m \ { key } |-> m[h] ]

\* ------------------------------------------------------------- the source
classes == << "Incident", "UserRequest" >>

Classes == { classes[n] : n \in 1 .. Len(classes) }

\* the objects the source may hold, as <<class, id>>
Objects == { << "Incident", "1" >>, << "UserRequest", "2" >> }

Absent == "absent"

\* the versions a source object goes through: an assigned ticket, the same
\* ticket resolved, and the resolved ticket under a longer resolution SLT
Versions == { "open", "done", "relaxed" }

RefOf(class, id) == (IF class = "Incident" THEN "I-" ELSE "R-") \o id

\* what the calls made while mapping a ticket in version v return
EnvOf(v) ==
    [ ttoBH |-> 1, tto24BH |-> 1,
      ttrBH |-> IF v = "open" THEN 0 ELSE 1,
      ttr24BH |-> IF v = "open" THEN 0 ELSE 2,
      callerTeam |-> "ops",
      slt |-> [ TTO |-> 1, TTR |-> IF v = "relaxed" THEN 2 ELSE 1 ] ]

\* the itop.Ticket parsed from object id in version v; Class is left for
\* the caller to set.  env is not a field of the ticket: it carries the
\* values EnvOf gives for it to the point where the ticket is mapped.
ParsedTicket(class, id, v) ==
    [ ID |-> id, Ref |-> RefOf(class, id), Class |-> "",
      Title |-> "printer down",
      Status |-> IF v = "open" THEN "assigned" ELSE "resolved",
      Priority |-> "2", Caller |-> "ann",
      StartDate |-> 1, AssignmentDate |-> 1,
      ResolutionDate |-> IF v = "open" THEN 0 ELSE 2,
      TimeToResponse |-> 1,
      TimeToResolve |-> IF v = "open" THEN 0 ELSE 2,
      env |-> EnvOf(v) ]

\* all orders in which the members of S can be listed
Orderings(S) ==
    { s \in [ 1 .. Cardinality(S) -> S ] :
        \A a, b \in 1 .. Cardinality(S) : a # b => s[a] # s[b] }

\* the results of a fetch that reports the missing settings as an error
FetchTicketsByClass_ErrOnMissing(class) ==
    IF ~creds
    THEN { [ tickets |-> << >>, err |-> TRUE ] }
    ELSE { [ tickets |-> << >>, err |-> TRUE ] }
         \cup
         { [ tickets |-> s, err |-> FALSE ] :
             s \in Orderings(
                 { [ ParsedTicket(class, o[2], world[o])
                       EXCEPT !.Class = class ] :
                     o \in { p \in Objects :
                               p[1] = class /\ world[p] # Absent } }) }

\* the possible results of FetchTicketsByClass(class)
FetchTicketsByClass(class) ==
    IF ~creds
    THEN { [ tickets |-> << >>, err |-> FALSE ] }
    ELSE { [ tickets |-> << >>, err |-> TRUE ] }
         \cup
         { [ tickets |-> s, err |-> FALSE ] :
             s \in Orderings(
                 { [ ParsedTicket(class, o[2], world[o])
                       EXCEPT !.Class = class ] :
                     o \in { p \in Objects :
                               p[1] = class /\ world[p] # Absent } }) }

\* ---------------------------------------------------------------- syncLoop
EmptyMap == [ h \in {} |-> 0 ]

Est(t) == mapTicketToES(t, t.env)

\* the target of the cycle: identity-hash -> document, over allTickets
Target ==
    [ h \in { hashTicketKey(allTickets[n].ID, allTickets[n].Ref,
                            allTickets[n].Class) :
                n \in 1 .. Len(allTickets) } |->
        Marshal(Est(CHOOSE t \in { allTickets[n] : n \in 1 .. Len(allTickets) } :
                      hashTicketKey(t.ID, t.Ref, t.Class) = h)) ]

\* the read sink as identity-hash -> document
Current == [ h \in DOMAIN snapshot |-> Marshal(snapshot[h]) ]

CycleClean == fetchErr = {} /\ readOK /\ ~writeFail

\* lines 99-119: the top of the loop body, which starts one fetch per class
StartCycle ==
    /\ pc = "start"
    /\ pc' = "recv"
    /\ fetchPc' = [ c \in Classes |-> "running" ]
    /\ ch' = << >>
    /\ sink0' = sink
    /\ UNCHANGED << world, creds, sink, i, allTickets, esTicketMap, k, ranged,
                    snapshot, upserted, deleted, fetchErr, readOK, writeFail, failed,
                    prevTarget, prevClean,
                    prevFailed, unhealed, slaIn, slaOut, teamVars >>

\* lines 115-118: one fetch goroutine, ending with its send on ch
FetchTask(class) ==
    /\ fetchPc[class] = "running"
    /\ Len(ch) < Len(classes)
    /\ \E r \in FetchTicketsByClass(class) :
          ch' = Append(ch, [ class |-> class, tickets |-> r.tickets,
                             err |-> r.err ])
    /\ fetchPc' = [ fetchPc EXCEPT ![class] = "done" ]
    /\ UNCHANGED << world, creds, sink, pc, i, allTickets, esTicketMap, k,
                    ranged, snapshot, sink0, upserted, deleted, fetchErr,
                    readOK, writeFail, failed, prevTarget, prevClean,
                    prevFailed, unhealed, slaIn, slaOut, teamVars >>

\* the receive loop left at the first result that carries an error
Recv_BreakOnError ==
    /\ pc = "recv"
    /\ i < Len(classes)
    /\ ch # << >>
    /\ LET r == Head(ch)
       IN /\ ch' = Tail(ch)
          /\ IF r.err
             THEN /\ fetchErr' = fetchErr \cup { r.class }
                  /\ UNCHANGED allTickets
                  /\ pc' = "read"
             ELSE /\ allTickets' = allTickets \o r.tickets
                  /\ UNCHANGED fetchErr
                  /\ pc' = IF i + 1 < Len(classes) THEN "recv" ELSE "read"
    /\ i' = i + 1
    /\ UNCHANGED << world, creds, sink, fetchPc, esTicketMap, k, ranged,
                    snapshot, sink0, upserted, deleted, readOK, writeFail, failed,
                    prevTarget, prevClean,
                    prevFailed, unhealed, slaIn, slaOut, teamVars >>

\* the receive loop left after the first result
Recv_FirstResultOnly ==
    /\ pc = "recv"
    /\ i < Len(classes)
    /\ ch # << >>
    /\ LET r == Head(ch)
       IN /\ ch' = Tail(ch)
          /\ IF r.err
             THEN /\ fetchErr' = fetchErr \cup { r.class }
                  /\ UNCHANGED allTickets
             ELSE /\ allTickets' = allTickets \o r.tickets
                  /\ UNCHANGED fetchErr
    /\ i' = i + 1
    /\ pc' = "read"
    /\ UNCHANGED << world, creds, sink, fetchPc, esTicketMap, k, ranged,
                    snapshot, sink0, upserted, deleted, readOK, writeFail, failed,
                    prevTarget, prevClean,
                    prevFailed, unhealed, slaIn, slaOut, teamVars >>

\* one iteration of a receive loop that keeps the tickets of the latest
\* result only
Recv_Overwrite ==
    /\ pc = "recv"
    /\ i < Len(classes)
    /\ ch # << >>
    /\ LET r == Head(ch)
       IN /\ ch' = Tail(ch)
          /\ IF r.err
             THEN /\ fetchErr' = fetchErr \cup { r.class }
                  /\ UNCHANGED allTickets
             ELSE /\ allTickets' = r.tickets
                  /\ UNCHANGED fetchErr
    /\ i' = i + 1
    /\ pc' = IF i + 1 < Len(classes) THEN "recv" ELSE "read"
    /\ UNCHANGED << world, creds, sink, fetchPc, esTicketMap, k, ranged,
                    snapshot, sink0, upserted, deleted, readOK, writeFail, failed,
                    prevTarget, prevClean,
                    prevFailed, unhealed, slaIn, slaOut, teamVars >>

\* one iteration of a receive loop that makes syncLoop return on an error
Recv_ReturnOnError ==
    /\ pc = "recv"
    /\ i < Len(classes)
    /\ ch # << >>
    /\ LET r == Head(ch)
       IN /\ ch' = Tail(ch)
          /\ IF r.err
             THEN /\ fetchErr' = fetchErr \cup { r.class }
                  /\ UNCHANGED allTickets
             ELSE /\ allTickets' = allTickets \o r.tickets
                  /\ UNCHANGED fetchErr
    /\ i' = i + 1
    /\ pc' = IF Head(ch).err THEN "returned"
             ELSE IF i + 1 < Len(classes) THEN "recv" ELSE "read"
    /\ UNCHANGED << world, creds, sink, fetchPc, esTicketMap, k, ranged,
                    snapshot, sink0, upserted, deleted, readOK, writeFail, failed,
                    prevTarget, prevClean,
                    prevFailed, unhealed, slaIn, slaOut, teamVars >>

\* lines 122-130: one iteration of the receive loop
Recv ==
    /\ pc = "recv"
    /\ i < Len(classes)
    /\ ch # << >>
    /\ LET r == Head(ch)
       IN /\ ch' = Tail(ch)
          /\ IF r.err
             THEN /\ fetchErr' = fetchErr \cup { r.class }
                  /\ UNCHANGED allTickets
             ELSE /\ allTickets' = allTickets \o r.tickets
                  /\ UNCHANGED fetchErr
    /\ i' = i + 1
    /\ pc' = IF i + 1 < Len(classes) THEN "recv" ELSE "read"
    /\ UNCHANGED << world, creds, sink, fetchPc, esTicketMap, k, ranged,
                    snapshot, sink0, upserted, deleted, readOK, writeFail, failed,
                    prevTarget, prevClean,
                    prevFailed, unhealed, slaIn, slaOut, teamVars >>

AfterSync(m) == IF DOMAIN m = {} THEN "sleep" ELSE "delete"

\* lines 134-138: read the sink and index what was read
ReadSink ==
    /\ pc = "read"
    /\ \E ok \in BOOLEAN :
       \E esTickets \in fetchAllESTickets(sink, ok) :
          /\ readOK' = ok
          /\ esTicketMap' = BuildMap(esTickets)
          /\ snapshot' = BuildMap(esTickets)
          /\ pc' = IF allTickets # << >> THEN "sync"
                   ELSE AfterSync(BuildMap(esTickets))
    /\ UNCHANGED << world, creds, sink, fetchPc, ch, i, allTickets, k, ranged,
                    sink0, upserted, deleted, fetchErr, writeFail, failed, prevTarget, prevClean,
                    prevFailed, unhealed, slaIn, slaOut, teamVars >>

\* one iteration of the sync loop that gives the cycle up when its upsert
\* fails
SyncTicket_StopOnFailure ==
    /\ pc = "sync"
    /\ k < Len(allTickets)
    /\ LET t == allTickets[k + 1]
           key == hashTicketKey(t.ID, t.Ref, t.Class)
           est == mapTicketToES(t, t.env)
           on == IF k + 1 < Len(allTickets) THEN "sync"
                 ELSE AfterSync(Without(esTicketMap, key))
       IN /\ IF key \notin DOMAIN esTicketMap
                \/ ~compareESTicket(est, esTicketMap[key])
             THEN \E ok \in BOOLEAN :
                     /\ sink' = upsertESTicket(sink, est, ok)
                     /\ upserted' = upserted \cup { DocId(est) }
                     /\ writeFail' = (writeFail \/ ~ok)
                     /\ failed' = IF ok THEN failed
                                  ELSE failed \cup { DocId(est) }
                     /\ pc' = IF ok THEN on ELSE "sleep"
             ELSE /\ UNCHANGED << sink, upserted, writeFail, failed >>
                  /\ pc' = on
          /\ esTicketMap' = Without(esTicketMap, key)
    /\ k' = k + 1
    /\ UNCHANGED << world, creds, fetchPc, ch, i, allTickets, ranged, snapshot,
                    sink0, deleted, fetchErr, readOK, prevTarget,
                    prevClean, prevFailed, unhealed, slaIn, slaOut, teamVars >>

\* lines 141-150: one iteration of the sync loop
SyncTicket ==
    /\ pc = "sync"
    /\ k < Len(allTickets)
    /\ LET t == allTickets[k + 1]
           key == hashTicketKey(t.ID, t.Ref, t.Class)
           est == mapTicketToES(t, t.env)
       IN /\ IF key \notin DOMAIN esTicketMap
                \/ ~compareESTicket(est, esTicketMap[key])
             THEN \E ok \in BOOLEAN :
                     /\ sink' = upsertESTicket(sink, est, ok)
                     /\ upserted' = upserted \cup { DocId(est) }
                     /\ writeFail' = (writeFail \/ ~ok)
                     /\ failed' = IF ok THEN failed
                                  ELSE failed \cup { DocId(est) }
             ELSE UNCHANGED << sink, upserted, writeFail, failed >>
          /\ esTicketMap' = Without(esTicketMap, key)
          /\ pc' = IF k + 1 < Len(allTickets) THEN "sync"
                   ELSE AfterSync(Without(esTicketMap, key))
    /\ k' = k + 1
    /\ UNCHANGED << world, creds, fetchPc, ch, i, allTickets, ranged, snapshot,
                    sink0, deleted, fetchErr, readOK, prevTarget,
                    prevClean, prevFailed, unhealed, slaIn, slaOut, teamVars >>

\* lines 152-154: one iteration of the delete loop, in map order
DeleteStale ==
    /\ pc = "delete"
    /\ \E key \in DOMAIN esTicketMap \ ranged :
          LET t == esTicketMap[key]
          IN /\ \E ok \in BOOLEAN :
                   /\ sink' = deleteESTicket(sink, t, ok)
                   /\ writeFail' = (writeFail \/ ~ok)
                   /\ failed' = IF ok THEN failed
                                  ELSE failed \cup { DocId(t) }
             /\ deleted' = deleted \cup { DocId(t) }
             /\ ranged' = ranged \cup { key }
             /\ pc' = IF DOMAIN esTicketMap \ (ranged \cup { key }) = {}
                      THEN "sleep" ELSE "delete"
    /\ UNCHANGED << world, creds, fetchPc, ch, i, allTickets, esTicketMap, k,
                    snapshot, sink0, upserted, fetchErr, readOK,
                    prevTarget, prevClean, prevFailed, unhealed, slaIn, slaOut, teamVars >>

\* the way back to the top of the loop with allTickets declared outside it
Reset_KeepTickets ==
    /\ pc' = "start"
    /\ fetchPc' = [ c \in Classes |-> "none" ]
    /\ ch' = << >>
    /\ i' = 0
    /\ allTickets' = allTickets
    /\ esTicketMap' = EmptyMap
    /\ snapshot' = EmptyMap
    /\ k' = 0
    /\ ranged' = {}
    /\ upserted' = {}
    /\ deleted' = {}
    /\ fetchErr' = {}
    /\ readOK' = TRUE
    /\ writeFail' = FALSE
    /\ failed' = {}
    /\ sink0' = sink
    /\ UNCHANGED << world, creds, sink, slaIn, slaOut, teamVars >>

\* the way back to the top of the loop: the locals of the iteration are
\* dropped
Reset ==
    /\ pc' = "start"
    /\ fetchPc' = [ c \in Classes |-> "none" ]
    /\ ch' = << >>
    /\ i' = 0
    /\ allTickets' = << >>
    /\ esTicketMap' = EmptyMap
    /\ snapshot' = EmptyMap
    /\ k' = 0
    /\ ranged' = {}
    /\ upserted' = {}
    /\ deleted' = {}
    /\ fetchErr' = {}
    /\ readOK' = TRUE
    /\ writeFail' = FALSE
    /\ failed' = {}
    /\ sink0' = sink
    /\ UNCHANGED << world, creds, sink, slaIn, slaOut, teamVars >>

\* line 156, the end of the iteration; the summary kept of it is its target
\* when it was clean and whether a failed fetch is still to be made up for
Sleep ==
    /\ pc = "sleep"
    /\ prevTarget' = IF CycleClean THEN Target ELSE EmptyMap
    /\ prevClean' = CycleClean
    /\ unhealed' = IF CycleClean THEN FALSE ELSE (unhealed \/ fetchErr # {})
    /\ prevFailed' = EmptyMap
    /\ Reset

\* line 156, the end of the iteration; the summary kept of it is the writes
\* that failed
SleepRetry ==
    /\ pc = "sleep"
    /\ prevFailed' = [ h \in failed |->
                         IF h \in DOMAIN Target THEN Target[h] ELSE << >> ]
    /\ prevTarget' = EmptyMap
    /\ prevClean' = FALSE
    /\ unhealed' = FALSE
    /\ Reset

\* the source: an object is created, moves to another version or is removed
\* A fetch reads its class once, so a change made while a cycle runs is seen
\* as if made before that cycle or after it: changes are taken between
\* cycles.
SourceChange(o, v) ==
    /\ pc = "start"
    /\ world[o] # v
    /\ world' = [ world EXCEPT ![o] = v ]
    /\ UNCHANGED << creds, sink, pc, fetchPc, ch, i, allTickets, esTicketMap,
                    k, ranged, snapshot, sink0, upserted, deleted, fetchErr,
                    readOK, writeFail, failed, prevTarget, prevClean,
                    prevFailed, unhealed, slaIn, slaOut, teamVars >>

SLAIdle == [ ttoRaw |-> 0, ttrRaw |-> 0, ttoBH |-> 0, ttrBH |-> 0,
             tto24BH |-> 0, ttr24BH |-> 0, TTO |-> 0, TTR |-> 0 ]

\* the concurrent callers of FetchPersonTeams
Callers == 1 .. MaxCallers

NoOne == 0

NoRet == [ none |-> TRUE ]

NoResp == [ kind |-> "none" ]

\* no call of FetchPersonTeams under way, the cache empty, the ticker just
\* created (part_000:85-105)
TeamsInit ==
    /\ personTeamCache = [ n \in {} |-> "" ]
    /\ readers = {}
    /\ writer = NoOne
    /\ tick = 0
    /\ ptPc = [ p \in Callers |-> "idle" ]
    /\ ptName = [ p \in Callers |-> "" ]
    /\ ptVal = [ p \in Callers |-> "" ]
    /\ ptRet = [ p \in Callers |-> NoRet ]
    /\ ptResp = [ p \in Callers |-> NoResp ]
    /\ ptTok = [ p \in Callers |-> 0 ]
    /\ ptPosts = [ p \in Callers |-> 0 ]
    /\ ptWrote = [ p \in Callers |-> FALSE ]
    /\ ptHad = [ p \in Callers |-> FALSE ]
    /\ everCached = {}
    /\ intervalAcq = 0
    /\ intervalPosts = 0

LoopInit ==
    /\ pc = "start"
    /\ fetchPc = [ c \in Classes |-> "none" ]
    /\ ch = << >>
    /\ i = 0
    /\ allTickets = << >>
    /\ esTicketMap = EmptyMap
    /\ snapshot = EmptyMap
    /\ k = 0
    /\ ranged = {}
    /\ upserted = {}
    /\ deleted = {}
    /\ fetchErr = {}
    /\ readOK = TRUE
    /\ writeFail = FALSE
    /\ failed = {}
    /\ prevTarget = EmptyMap
    /\ prevClean = FALSE
    /\ prevFailed = EmptyMap
    /\ unhealed = FALSE

\* the documents an error-free cycle leaves in the index for source w
Stored(w) ==
    { [ id |-> DocId(Est(t)), source |-> Marshal(Est(t)) ] :
        t \in { [ ParsedTicket(o[1], o[2], w[o]) EXCEPT !.Class = o[1] ] :
                  o \in { p \in Objects : w[p] # Absent } } }

\* the process starts with the index as an earlier run left it
Init ==
    /\ world \in [ Objects -> Versions \cup { Absent } ]
    /\ creds \in BOOLEAN
    /\ sink \in { Stored(w) : w \in [ Objects -> Versions \cup { Absent } ] }
    /\ sink0 = sink
    /\ LoopInit
    /\ TeamsInit
    /\ slaIn = SLAIdle
    /\ slaOut = [ none |-> TRUE ]

Next ==
    \/ StartCycle
    \/ \E class \in Classes : FetchTask(class)
    \/ Recv
    \/ ReadSink
    \/ SyncTicket
    \/ DeleteStale
    \/ Sleep
    \/ \E o \in Objects, v \in Versions \cup { Absent } : SourceChange(o, v)

\* --------------------------------------------------------------- SpecSLA
Durs == 0 .. MaxDur

\* a resolved ticket whose descriptive fields are fixed
SLATicket(ttoRaw, ttrRaw) ==
    [ ID |-> "1", Ref |-> "I-1", Class |-> "Incident", Title |-> "a",
      Status |-> "resolved", Priority |-> "1", Caller |-> "ann",
      StartDate |-> 1, AssignmentDate |-> 1, ResolutionDate |-> 1,
      TimeToResponse |-> ttoRaw, TimeToResolve |-> ttrRaw ]

NoOut == [ none |-> TRUE ]

InitSLA ==
    /\ slaIn \in [ ttoRaw : Durs, ttrRaw : Durs, ttoBH : Durs, ttrBH : Durs,
                   tto24BH : Durs, ttr24BH : Durs, TTO : Durs, TTR : Durs ]
    /\ slaOut = NoOut
    /\ world = [ o \in Objects |-> Absent ]
    /\ creds = TRUE
    /\ sink = {}
    /\ sink0 = {}
    /\ LoopInit
    /\ TeamsInit

MapOne ==
    /\ slaOut = NoOut
    /\ slaOut' = mapTicketToES(
           SLATicket(slaIn.ttoRaw, slaIn.ttrRaw),
           [ ttoBH |-> slaIn.ttoBH, ttrBH |-> slaIn.ttrBH,
             tto24BH |-> slaIn.tto24BH, ttr24BH |-> slaIn.ttr24BH,
             callerTeam |-> "ops",
             slt |-> [ TTO |-> slaIn.TTO, TTR |-> slaIn.TTR ] ])
    /\ UNCHANGED << slaIn, world, creds, sink, pc, fetchPc, ch, i, allTickets,
                    esTicketMap, k, ranged, snapshot, sink0, upserted,
                    deleted, fetchErr, readOK, writeFail, failed, prevTarget, prevClean,
                    prevFailed, unhealed, teamVars >>

vars == << slaIn, slaOut, world, creds, sink, pc, fetchPc, ch, i, allTickets,
           esTicketMap, k, ranged, snapshot, sink0, upserted, deleted,
           fetchErr, readOK, writeFail, failed, prevTarget,
           prevClean, prevFailed, unhealed, teamVars >>

NextSLA == MapOne

SpecSLA == InitSLA /\ [][NextSLA]_vars

Spec == Init /\ [][Next]_vars

\* Every call the loop makes returns and the scheduler lets the loop and its
\* fetch goroutines run; nothing is assumed of the source.
Fairness ==
    /\ WF_vars(StartCycle)
    /\ \A class \in Classes : WF_vars(FetchTask(class))
    /\ WF_vars(Recv)
    /\ WF_vars(ReadSink)
    /\ WF_vars(SyncTicket)
    /\ WF_vars(DeleteStale)
    /\ WF_vars(Sleep)

FairSpec == Init /\ [][Next]_vars /\ Fairness

NextRetry ==
    \/ StartCycle
    \/ \E class \in Classes : FetchTask(class)
    \/ Recv
    \/ ReadSink
    \/ SyncTicket
    \/ DeleteStale
    \/ SleepRetry
    \/ \E o \in Objects, v \in Versions \cup { Absent } : SourceChange(o, v)

SpecRetry == Init /\ [][NextRetry]_vars

\* ------------------------------------------------------------- SpecTeams
loopVars == << slaIn, slaOut, world, creds, sink, pc, fetchPc, ch, i,
               allTickets, esTicketMap, k, ranged, snapshot, sink0, upserted,
               deleted, fetchErr, readOK, writeFail, failed, prevTarget,
               prevClean, prevFailed, unhealed >>

\* the person names callers ask for
Names == { "", "ann" }

\* the team_list of the objects of a response, in the order the loop over
\* result.Objects meets them
ObjectLists ==
    { << >>, << << >> >>, << << "ops" >> >>, << << "ops" >>, << "net" >> >>,
      << << "" >> >> }

\* what client.Post and json.Unmarshal can give: a failed call, a body that
\* does not parse, or a parsed result with its code and objects
Responses ==
    { [ kind |-> "postErr" ], [ kind |-> "badBody" ],
      [ kind |-> "parsed", code |-> 100, objects |-> << >> ] }
      \cup { [ kind |-> "parsed", code |-> 0, objects |-> o ] :
               o \in ObjectLists }

RECURSIVE Flatten(_)
\* lines 179-184: the team names of all objects
Flatten(objects) ==
    IF objects = << >> THEN << >>
    ELSE Head(objects) \o Flatten(Tail(objects))

RECURSIVE Join(_)
\* strings.Join(teamNames, ", ")
Join(teamNames) ==
    IF teamNames = << >> THEN ""
    ELSE IF Len(teamNames) = 1 THEN teamNames[1]
    ELSE teamNames[1] \o ", " \o Join(Tail(teamNames))

\* personTeamCache[name] = team
Store(cache, name, team) ==
    [ n \in DOMAIN cache \cup { name } |->
        IF n = name THEN team ELSE cache[n] ]

\* a caller enters FetchPersonTeams(name)
Call(p, name) ==
    /\ ptPc[p] = "idle"
    /\ ptPc' = [ ptPc EXCEPT ![p] = "rlock" ]
    /\ ptName' = [ ptName EXCEPT ![p] = name ]
    /\ ptHad' = [ ptHad EXCEPT ![p] = name \in DOMAIN personTeamCache ]
    /\ UNCHANGED << personTeamCache, readers, writer, tick, ptVal, ptRet,
                    ptResp, ptTok, ptPosts, ptWrote, intervalAcq,
                    intervalPosts, everCached, loopVars >>

\* line 110: personTeamCacheMutex.RLock()
RLock(p) ==
    /\ ptPc[p] = "rlock"
    /\ writer = NoOne
    /\ readers' = readers \cup { p }
    /\ ptPc' = [ ptPc EXCEPT ![p] = "read" ]
    /\ UNCHANGED << personTeamCache, writer, tick, ptName, ptVal, ptRet,
                    ptResp, ptTok, ptPosts, ptWrote, intervalAcq,
                    intervalPosts, ptHad, everCached,
                    loopVars >>

\* line 111: the lookup in the cache
ReadCache(p) ==
    /\ ptPc[p] = "read"
    /\ ptRet' = [ ptRet EXCEPT ![p] =
                    IF ptName[p] \in DOMAIN personTeamCache
                    THEN [ team |-> personTeamCache[ptName[p]],
                           err |-> FALSE ]
                    ELSE NoRet ]
    /\ ptPc' = [ ptPc EXCEPT ![p] = "runlock" ]
    /\ UNCHANGED << personTeamCache, readers, writer, tick, ptName, ptVal,
                    ptResp, ptTok, ptPosts, ptWrote, intervalAcq,
                    intervalPosts, ptHad, everCached,
                    loopVars >>

\* lines 112-123: RUnlock on either branch; a hit returns, a miss goes on
\* to the empty-name test
RUnlock(p) ==
    /\ ptPc[p] = "runlock"
    /\ readers' = readers \ { p }
    /\ IF ptRet[p] # NoRet
       THEN /\ ptPc' = [ ptPc EXCEPT ![p] = "done" ]
            /\ UNCHANGED ptVal
       ELSE IF ptName[p] = ""
            THEN /\ ptPc' = [ ptPc EXCEPT ![p] = "lock" ]
                 /\ ptVal' = [ ptVal EXCEPT ![p] = "-" ]
            ELSE /\ ptPc' = [ ptPc EXCEPT ![p] = "wait" ]
                 /\ UNCHANGED ptVal
    /\ UNCHANGED << personTeamCache, writer, tick, ptName, ptRet, ptResp,
                    ptTok, ptPosts, ptWrote, intervalAcq, intervalPosts,
                    ptHad, ptHad, everCached,
                    loopVars >>

\* a receive that does not wait for a tick
Acquire_NoWait(p) ==
    /\ ptPc[p] = "wait"
    /\ tick' = 0
    /\ ptTok' = [ ptTok EXCEPT ![p] = @ + 1 ]
    /\ intervalAcq' = intervalAcq + 1
    /\ ptPc' = [ ptPc EXCEPT ![p] = "post" ]
    /\ UNCHANGED << personTeamCache, readers, writer, ptName, ptVal, ptRet,
                    ptResp, ptPosts, ptWrote, intervalPosts, ptHad, everCached,
                    loopVars >>

\* line 126: <-rateLimiter.C
Acquire(p) ==
    /\ ptPc[p] = "wait"
    /\ tick > 0
    /\ tick' = tick - 1
    /\ ptTok' = [ ptTok EXCEPT ![p] = @ + 1 ]
    /\ intervalAcq' = intervalAcq + 1
    /\ ptPc' = [ ptPc EXCEPT ![p] = "post" ]
    /\ UNCHANGED << personTeamCache, readers, writer, ptName, ptVal, ptRet,
                    ptResp, ptPosts, ptWrote, intervalPosts, ptHad, everCached,
                    loopVars >>

\* a lookup that caches "-" when the call fails or the body does not parse
Lookup_CacheOnError(p) ==
    /\ ptPc[p] = "post"
    /\ IF ~creds
       THEN /\ ptRet' = [ ptRet EXCEPT ![p] = [ team |-> "-", err |-> FALSE ] ]
            /\ ptPc' = [ ptPc EXCEPT ![p] = "done" ]
            /\ UNCHANGED << ptResp, ptPosts, intervalPosts, ptVal >>
       ELSE \E r \in Responses :
               /\ ptResp' = [ ptResp EXCEPT ![p] = r ]
               /\ ptPosts' = [ ptPosts EXCEPT ![p] = @ + 1 ]
               /\ intervalPosts' = intervalPosts + 1
               /\ IF r.kind \in { "postErr", "badBody" }
                  THEN /\ ptVal' = [ ptVal EXCEPT ![p] = "-" ]
                       /\ ptPc' = [ ptPc EXCEPT ![p] = "lock" ]
                       /\ UNCHANGED ptRet
                  ELSE /\ ptVal' = [ ptVal EXCEPT ![p] =
                            IF r.code # 0 \/ Len(r.objects) = 0
                            THEN "-"
                            ELSE IF Len(Flatten(r.objects)) = 0
                                 THEN "-"
                                 ELSE Join(Flatten(r.objects)) ]
                       /\ ptPc' = [ ptPc EXCEPT ![p] = "lock" ]
                       /\ UNCHANGED ptRet
    /\ UNCHANGED << personTeamCache, readers, writer, tick, ptName, ptTok,
                    ptWrote, intervalAcq, ptHad, everCached,
                    loopVars >>

\* lines 129-191: the settings test, the remote lookup and what is made of
\* its answer
Lookup(p) ==
    /\ ptPc[p] = "post"
    /\ IF ~creds
       THEN /\ ptRet' = [ ptRet EXCEPT ![p] = [ team |-> "-", err |-> FALSE ] ]
            /\ ptPc' = [ ptPc EXCEPT ![p] = "done" ]
            /\ UNCHANGED << ptResp, ptPosts, intervalPosts, ptVal >>
       ELSE \E r \in Responses :
               /\ ptResp' = [ ptResp EXCEPT ![p] = r ]
               /\ ptPosts' = [ ptPosts EXCEPT ![p] = @ + 1 ]
               /\ intervalPosts' = intervalPosts + 1
               /\ IF r.kind \in { "postErr", "badBody" }
                  THEN /\ ptRet' = [ ptRet EXCEPT ![p] =
                                       [ team |-> "-", err |-> TRUE ] ]
                       /\ ptPc' = [ ptPc EXCEPT ![p] = "done" ]
                       /\ UNCHANGED ptVal
                  ELSE /\ ptVal' = [ ptVal EXCEPT ![p] =
                            IF r.code # 0 \/ Len(r.objects) = 0
                            THEN "-"
                            ELSE IF Len(Flatten(r.objects)) = 0
                                 THEN "-"
                                 ELSE Join(Flatten(r.objects)) ]
                       /\ ptPc' = [ ptPc EXCEPT ![p] = "lock" ]
                       /\ UNCHANGED ptRet
    /\ UNCHANGED << personTeamCache, readers, writer, tick, ptName, ptTok,
                    ptWrote, intervalAcq, ptHad, everCached,
                    loopVars >>

\* a Lock that is granted while readers hold the mutex
Lock_DespiteReaders(p) ==
    /\ ptPc[p] = "lock"
    /\ writer = NoOne
    /\ writer' = p
    /\ ptPc' = [ ptPc EXCEPT ![p] = "write" ]
    /\ UNCHANGED << personTeamCache, readers, tick, ptName, ptVal, ptRet,
                    ptResp, ptTok, ptPosts, ptWrote, intervalAcq,
                    intervalPosts, ptHad, everCached,
                    loopVars >>

\* lines 119, 173, 187, 194: personTeamCacheMutex.Lock()
Lock(p) ==
    /\ ptPc[p] = "lock"
    /\ writer = NoOne
    /\ readers = {}
    /\ writer' = p
    /\ ptPc' = [ ptPc EXCEPT ![p] = "write" ]
    /\ UNCHANGED << personTeamCache, readers, tick, ptName, ptVal, ptRet,
                    ptResp, ptTok, ptPosts, ptWrote, intervalAcq,
                    intervalPosts, ptHad, everCached,
                    loopVars >>

\* lines 120, 174, 188, 195: the assignment to the cache
WriteCache(p) ==
    /\ ptPc[p] = "write"
    /\ personTeamCache' = Store(personTeamCache, ptName[p], ptVal[p])
    /\ ptWrote' = [ ptWrote EXCEPT ![p] = TRUE ]
    /\ everCached' = everCached \cup { ptName[p] }
    /\ ptPc' = [ ptPc EXCEPT ![p] = "unlock" ]
    /\ UNCHANGED << readers, writer, tick, ptName, ptVal, ptRet, ptResp,
                    ptTok, ptPosts, intervalAcq, intervalPosts, ptHad,
                    loopVars >>

\* lines 121-122, 175-176, 189-190, 196-197: Unlock and the return
Unlock(p) ==
    /\ ptPc[p] = "unlock"
    /\ writer' = NoOne
    /\ ptRet' = [ ptRet EXCEPT ![p] = [ team |-> ptVal[p], err |-> FALSE ] ]
    /\ ptPc' = [ ptPc EXCEPT ![p] = "done" ]
    /\ UNCHANGED << personTeamCache, readers, tick, ptName, ptVal, ptResp,
                    ptTok, ptPosts, ptWrote, intervalAcq, intervalPosts,
                    ptHad, ptHad, everCached,
                    loopVars >>

\* the caller has the result; what the call held is dropped
Return(p) ==
    /\ ptPc[p] = "done"
    /\ ptPc' = [ ptPc EXCEPT ![p] = "idle" ]
    /\ ptName' = [ ptName EXCEPT ![p] = "" ]
    /\ ptVal' = [ ptVal EXCEPT ![p] = "" ]
    /\ ptRet' = [ ptRet EXCEPT ![p] = NoRet ]
    /\ ptResp' = [ ptResp EXCEPT ![p] = NoResp ]
    /\ ptTok' = [ ptTok EXCEPT ![p] = 0 ]
    /\ ptPosts' = [ ptPosts EXCEPT ![p] = 0 ]
    /\ ptWrote' = [ ptWrote EXCEPT ![p] = FALSE ]
    /\ ptHad' = [ ptHad EXCEPT ![p] = FALSE ]
    /\ UNCHANGED << personTeamCache, readers, writer, tick, intervalAcq,
                    intervalPosts, everCached, loopVars >>

\* the ticker fires: one rate-limit interval ends and the next begins; the
\* tick is dropped when the channel still holds the one before
Tick ==
    /\ tick' = 1
    /\ intervalAcq' = 0
    /\ intervalPosts' = 0
    /\ UNCHANGED << personTeamCache, readers, writer, ptPc, ptName, ptVal,
                    ptRet, ptResp, ptTok, ptPosts, ptWrote, ptHad, everCached,
                    loopVars >>

InitTeams ==
    /\ creds \in BOOLEAN
    /\ world = [ o \in Objects |-> Absent ]
    /\ sink = {}
    /\ sink0 = {}
    /\ LoopInit
    /\ TeamsInit
    /\ slaIn = SLAIdle
    /\ slaOut = NoOut

NextTeams ==
    \/ \E p \in Callers, name \in Names : Call(p, name)
    \/ \E p \in Callers : RLock(p)
    \/ \E p \in Callers : ReadCache(p)
    \/ \E p \in Callers : RUnlock(p)
    \/ \E p \in Callers : Acquire(p)
    \/ \E p \in Callers : Lookup(p)
    \/ \E p \in Callers : Lock(p)
    \/ \E p \in Callers : WriteCache(p)
    \/ \E p \in Callers : Unlock(p)
    \/ \E p \in Callers : Return(p)
    \/ Tick

SpecTeams == InitTeams /\ [][NextTeams]_vars

\* ------------------------------------------------------ claims on SpecSLA
Mapped == slaOut # NoOut

\* what section 4.3 of the design asks of a windowed verdict whose window
\* duration is zero: the raw duration decides
RawDecides(thr, raw) ==
    IF raw > thr THEN "overdue" ELSE IF raw > 0 THEN "comply" ELSE ""

\* C6: with a positive threshold and a business-hour (24-hour) duration of
\* exactly zero, the windowed verdict is the one the raw duration gives:
\* overdue above the threshold, comply within it, unknown when raw is zero.
C6_RawFallbackDecides ==
    Mapped =>
        /\ (slaIn.TTO > 0 /\ slaIn.ttoBH = 0) =>
              slaOut.SLAComplianceResponseBusinessHour
                  = RawDecides(slaIn.TTO, slaIn.ttoRaw)
        /\ (slaIn.TTR > 0 /\ slaIn.ttrBH = 0) =>
              slaOut.SLAComplianceResolveBusinessHour
                  = RawDecides(slaIn.TTR, slaIn.ttrRaw)
        /\ (slaIn.TTO > 0 /\ slaIn.tto24BH = 0) =>
              slaOut.SLAComplianceResponse24BH
                  = RawDecides(slaIn.TTO, slaIn.ttoRaw)
        /\ (slaIn.TTR > 0 /\ slaIn.ttr24BH = 0) =>
              slaOut.SLAComplianceResolve24BH
                  = RawDecides(slaIn.TTR, slaIn.ttrRaw)

\* C7: a verdict whose threshold is zero, or whose durations (the mode's
\* own and the raw fallback) are all zero, is unknown (""), never comply.
C7_UnknownNeverComply ==
    Mapped =>
        /\ (slaIn.TTO = 0 \/ slaIn.ttoRaw = 0) =>
              slaOut.SLAComplianceResponseRaw = ""
        /\ (slaIn.TTR = 0 \/ slaIn.ttrRaw = 0) =>
              slaOut.SLAComplianceResolveRaw = ""
        /\ (slaIn.TTO = 0 \/ (slaIn.ttoBH = 0 /\ slaIn.ttoRaw = 0)) =>
              slaOut.SLAComplianceResponseBusinessHour = ""
        /\ (slaIn.TTR = 0 \/ (slaIn.ttrBH = 0 /\ slaIn.ttrRaw = 0)) =>
              slaOut.SLAComplianceResolveBusinessHour = ""
        /\ (slaIn.TTO = 0 \/ (slaIn.tto24BH = 0 /\ slaIn.ttoRaw = 0)) =>
              slaOut.SLAComplianceResponse24BH = ""
        /\ (slaIn.TTR = 0 \/ (slaIn.ttr24BH = 0 /\ slaIn.ttrRaw = 0)) =>
              slaOut.SLAComplianceResolve24BH = ""

\* a ticket mapped with no resolution threshold although every resolution
\* duration is positive, and one mapped with a threshold and no duration
C7_Witness ==
    /\ Mapped
    /\ slaIn.TTR = 0 /\ slaIn.ttrRaw > 0 /\ slaIn.ttrBH > 0
    /\ slaIn.ttr24BH > 0
    /\ slaIn.TTO > 0 /\ slaIn.ttoRaw = 0 /\ slaIn.ttoBH = 0
    /\ slaIn.tto24BH = 0
    /\ slaOut.SLAComplianceResolveBusinessHour = ""
    /\ slaOut.SLAComplianceResponse24BH = ""

Verdict(thr, observed) == IF observed <= thr THEN "comply" ELSE "overdue"

\* C8: in each of the three modes and for both SLA types, a positive
\* threshold and a positive duration of that mode give comply when the
\* duration is within the threshold and overdue otherwise.
C8_PositiveVerdict ==
    Mapped =>
        /\ (slaIn.TTO > 0 /\ slaIn.ttoRaw > 0) =>
              slaOut.SLAComplianceResponseRaw
                  = Verdict(slaIn.TTO, slaIn.ttoRaw)
        /\ (slaIn.TTR > 0 /\ slaIn.ttrRaw > 0) =>
              slaOut.SLAComplianceResolveRaw
                  = Verdict(slaIn.TTR, slaIn.ttrRaw)
        /\ (slaIn.TTO > 0 /\ slaIn.ttoBH > 0) =>
              slaOut.SLAComplianceResponseBusinessHour
                  = Verdict(slaIn.TTO, slaIn.ttoBH)
        /\ (slaIn.TTR > 0 /\ slaIn.ttrBH > 0) =>
              slaOut.SLAComplianceResolveBusinessHour
                  = Verdict(slaIn.TTR, slaIn.ttrBH)
        /\ (slaIn.TTO > 0 /\ slaIn.tto24BH > 0) =>
              slaOut.SLAComplianceResponse24BH
                  = Verdict(slaIn.TTO, slaIn.tto24BH)
        /\ (slaIn.TTR > 0 /\ slaIn.ttr24BH > 0) =>
              slaOut.SLAComplianceResolve24BH
                  = Verdict(slaIn.TTR, slaIn.ttr24BH)

\* a ticket resolved within the threshold in business hours whose raw
\* duration is over it, and answered over the threshold in business hours
C8_Witness ==
    /\ Mapped
    /\ slaIn.TTR > 0 /\ slaIn.ttrBH > 0 /\ slaIn.ttrBH <= slaIn.TTR
    /\ slaIn.ttrRaw > slaIn.TTR
    /\ slaIn.TTO > 0 /\ slaIn.ttoBH > slaIn.TTO
    /\ slaOut.SLAComplianceResolveBusinessHour = "comply"
    /\ slaOut.SLAComplianceResolveRaw = "overdue"
    /\ slaOut.SLAComplianceResponseBusinessHour = "overdue"

\* --------------------------------------------------------- claims on Spec
AtEnd == pc = "sleep"

\* the join is over and the sink has been read
Reconciling == pc \in { "sync", "delete", "sleep" }

Key(t) == hashTicketKey(t.ID, t.Ref, t.Class)

\* the tickets the sync loop has been through
Synced == { allTickets[n] : n \in 1 .. k }

\* the composite key a sink document was written for
SourceKey(d) ==
    LET e == Unmarshal(d.source) IN << e.ID, e.Ref, e.Class >>

\* C1: at the end of a cycle in which both fetches, the sink read and all
\* writes succeeded, every fetched ticket has its document in the sink under
\* its identity-hash, with the content mapTicketToES gives, and the sink
\* holds no document under any other identity-hash.
C1_SinkEqualsTarget ==
    (AtEnd /\ CycleClean) =>
        /\ \A n \in 1 .. Len(allTickets) :
              \E d \in sink :
                 /\ d.id = Key(allTickets[n])
                 /\ Unmarshal(d.source)
                      = mapTicketToES(allTickets[n], allTickets[n].env)
        /\ \A d \in sink :
              \E n \in 1 .. Len(allTickets) : d.id = Key(allTickets[n])
        /\ \A d, e \in sink : d.id = e.id => d = e

\* a clean cycle that rewrote a document of the snapshot, removed another,
\* and left one document in the sink
C1_Witness ==
    /\ AtEnd /\ CycleClean
    /\ upserted \cap DOMAIN snapshot # {}
    /\ deleted # {}
    /\ Cardinality(sink) = 1

\* C2: reconciling a target with a sink that already holds it calls neither
\* upsert nor delete; so a cycle whose target is the target of the clean
\* cycle before it, and whose sink read succeeds, issues no write.
C2_Idempotent ==
    Reconciling =>
        /\ Current = Target => (upserted = {} /\ deleted = {})
        /\ (prevClean /\ prevTarget = Target /\ readOK) =>
              (upserted = {} /\ deleted = {})

\* the end of a cycle over two tickets that follows a clean cycle with the
\* same target
C2_Witness ==
    /\ AtEnd
    /\ prevClean /\ prevTarget = Target /\ readOK
    /\ Current = Target
    /\ Len(allTickets) = 2
    /\ \E n \in 1 .. 2 : allTickets[n].ResolutionDate # 0

\* C3: a ticket of the cycle is upserted exactly when the snapshot has no
\* record under its identity-hash or that record differs from the mapped
\* ticket in some field, derived SLA fields included.
C3_UpsertIffMissingOrDifferent ==
    /\ \A t \in Synced :
          Key(t) \in upserted
             <=> \/ Key(t) \notin DOMAIN snapshot
                 \/ snapshot[Key(t)] # mapTicketToES(t, t.env)
    /\ upserted \subseteq { Key(t) : t \in Synced }

\* a cycle that left one ticket alone because the snapshot held it
\* unchanged and upserted another that differed from the snapshot in its
\* verdicts only
C3_Witness ==
    /\ AtEnd
    /\ \E t, u \in Synced :
          /\ Key(t) \in DOMAIN snapshot /\ Key(u) \in DOMAIN snapshot
          /\ snapshot[Key(t)] = mapTicketToES(t, t.env)
          /\ Key(t) \notin upserted
          /\ Key(u) \in upserted
          /\ snapshot[Key(u)].SLAComplianceResolveRaw
                # mapTicketToES(u, u.env).SLAComplianceResolveRaw
          /\ [ snapshot[Key(u)] EXCEPT !.SLAComplianceResolveRaw = "",
                                       !.SLAComplianceResolve24BH = "" ]
             = [ mapTicketToES(u, u.env)
                   EXCEPT !.SLAComplianceResolveRaw = "",
                          !.SLAComplianceResolve24BH = "" ]

\* C4: at the end of a cycle the identity-hashes deleted are exactly those of
\* the snapshot that the target lacks, and none of them was upserted.
C4_DeleteExactlyStale ==
    AtEnd =>
        /\ deleted = DOMAIN snapshot \ DOMAIN Target
        /\ deleted \cap upserted = {}

\* a cycle that deleted one record and upserted another
C4_Witness ==
    /\ AtEnd
    /\ deleted # {} /\ upserted # {}
    /\ DOMAIN snapshot \cap DOMAIN Target # {}

\* C5: the sink never holds two documents written for the same composite
\* key (id, ref, class).
C5_OneRecordPerKey ==
    \A d, e \in sink : SourceKey(d) = SourceKey(e) => d = e

\* two documents in the sink, one of them rewritten in a cycle in which a
\* write failed
C5_Witness ==
    /\ Cardinality(sink) = 2
    /\ writeFail
    /\ \E d \in sink :
          /\ d.id \in upserted \cap DOMAIN snapshot
          /\ Unmarshal(d.source) # snapshot[d.id]

\* the source objects a class holds, as the tickets a fetch delivers
TicketsOf(class) ==
    { [ ParsedTicket(class, o[2], world[o]) EXCEPT !.Class = class ] :
        o \in { p \in Objects : p[1] = class /\ world[p] # Absent } }

\* C9: a cycle in which the fetch of a class failed still runs to its end
\* with the tickets of each class fetched without error: all of them have
\* gone through the sync loop, upserted when missing or different.
C9_OtherClassesStillSynced ==
    (AtEnd /\ fetchErr # {}) =>
        \A class \in Classes \ fetchErr :
           \A t \in TicketsOf(class) :
              /\ t \in Synced
              /\ (\/ Key(t) \notin DOMAIN snapshot
                  \/ snapshot[Key(t)] # mapTicketToES(t, t.env))
                    => Key(t) \in upserted

\* the end of a cycle in which the Incident fetch failed and the
\* UserRequest ticket was upserted and stored
C9_Witness ==
    /\ AtEnd
    /\ fetchErr = { "Incident" }
    /\ \E t \in TicketsOf("UserRequest") :
          /\ Key(t) \in upserted
          /\ \E d \in sink :
                d.id = Key(t)
                  /\ Unmarshal(d.source) = mapTicketToES(t, t.env)

\* the documents of the index written for tickets of a class
DocsOf(index, class) == { d \in index : SourceKey(d)[3] = class }

\* C10: at the end of a cycle, for a class whose fetch failed, no upsert and
\* no delete was issued for its sink records and those records are what
\* they were when the cycle started.
C10_FailedClassUntouched ==
    AtEnd =>
        \A class \in fetchErr :
           /\ { d.id : d \in DocsOf(sink0, class) }
                 \cap (upserted \cup deleted) = {}
           /\ DocsOf(sink, class) = DocsOf(sink0, class)

\* C11: at the end of the first cycle without any error that follows a cycle
\* in which a class fetch failed, the sink holds exactly the documents of
\* all tickets the source holds, in both classes, whatever the failed cycle
\* upserted, deleted or left undone.
C11_HealsAfterFailedFetch ==
    (AtEnd /\ CycleClean /\ unhealed) => sink = Stored(world)

\* a clean cycle after a failed fetch that put back the document of a ticket
\* the sink had lost and rewrote another one
C11_Witness ==
    /\ AtEnd /\ CycleClean /\ unhealed
    /\ Cardinality(sink) = 2
    /\ upserted \ DOMAIN snapshot # {}
    /\ upserted \cap DOMAIN snapshot # {}

\* the classes whose fetch task has sent its result
Delivered == { c \in Classes : fetchPc[c] = "done" }

\* C16: the two fetch tasks are joined before reconciliation.  Until both
\* results have been received the cycle has read nothing from the sink and
\* issued no upsert and no delete; once past the join both tasks are done.
\* Each task delivers exactly one result (the results received plus those
\* in the channel are one per finished task) and a running task always
\* finds room in the channel, so its send does not block.
C16_JoinBeforeReconciliation ==
    /\ pc \in { "read", "sync", "delete", "sleep" } =>
          /\ Delivered = Classes
          /\ i = Len(classes)
          /\ ch = << >>
    /\ pc \in { "start", "recv" } =>
          /\ snapshot = EmptyMap /\ esTicketMap = EmptyMap
          /\ upserted = {} /\ deleted = {}
          /\ sink = sink0
    /\ pc # "start" =>
          /\ i + Len(ch) = Cardinality(Delivered)
          /\ \A m, n \in 1 .. Len(ch) :
                /\ ch[m].class \in Delivered
                /\ m # n => ch[m].class # ch[n].class
    /\ \A c \in Classes : fetchPc[c] = "running" => Len(ch) < Len(classes)

\* both tasks have delivered, the second class first, before the loop
\* received anything, and the sink of the cycle is not empty
C16_Witness ==
    /\ pc = "recv" /\ i = 0
    /\ Len(ch) = 2 /\ ch[1].class = classes[2]
    /\ ch[1].tickets # << >>
    /\ sink # {}

\* the tickets the cycle's successful fetches delivered, as a set
Fetched ==
    IF creds THEN UNION { TicketsOf(c) : c \in Classes \ fetchErr } ELSE {}

\* the identity-hashes the comparison of Fetched with the snapshot asks to
\* upsert and to delete
UpsertNeeded ==
    { Key(t) : t \in { u \in Fetched :
                          \/ Key(u) \notin DOMAIN snapshot
                          \/ snapshot[Key(u)] # mapTicketToES(u, u.env) } }

DeleteNeeded == DOMAIN snapshot \ { Key(t) : t \in Fetched }

\* C17: the sink at the end of a cycle is the same whatever the order in
\* which the class results arrived, the tickets were processed and the
\* stale records were deleted: it is determined by the sink at the start
\* of the cycle, the set of tickets fetched, the snapshot read and the set
\* of writes that failed.
C17_OrderIndependent ==
    AtEnd =>
        /\ upserted = UpsertNeeded
        /\ deleted = DeleteNeeded
        /\ sink = { d \in sink0 :
                      d.id \notin (UpsertNeeded \cup DeleteNeeded) \ failed }
                  \cup { [ id |-> Key(t),
                           source |-> Marshal(mapTicketToES(t, t.env)) ] :
                           t \in { u \in Fetched :
                                     Key(u) \in UpsertNeeded \ failed } }

\* the end of a cycle in which the result of the second class arrived
\* first and the tickets of both classes were upserted
C17_Witness ==
    /\ AtEnd
    /\ Len(allTickets) = 2
    /\ allTickets[1].Class = classes[2]
    /\ Cardinality(upserted) = 2
    /\ Cardinality(sink) = 2

\* C19: with the source URL or credentials missing, the fetch of each class
\* delivers no ticket and no error; the cycle goes on to its end with an
\* empty target, issues no upsert and issues a delete for every record of
\* the sink snapshot.
C19_MissingCredentialsEmptyTarget ==
    ~creds =>
        /\ \A n \in 1 .. Len(ch) : ~ch[n].err /\ ch[n].tickets = << >>
        /\ fetchErr = {} /\ allTickets = << >>
        /\ upserted = {}
        /\ AtEnd => deleted = DOMAIN snapshot

\* the end of a cycle run without credentials against a source that holds
\* tickets: the two records read from the sink were deleted
C19_Witness ==
    /\ ~creds /\ AtEnd
    /\ \A o \in Objects : world[o] # Absent
    /\ readOK /\ Cardinality(DOMAIN snapshot) = 2
    /\ deleted = DOMAIN snapshot
    /\ sink = {}

\* C20: when the sink read fails the snapshot is empty; the cycle upserts
\* every target record, those the sink already holds unchanged included,
\* and issues no delete.
C20_FailedReadUpsertsAll ==
    (Reconciling /\ ~readOK) =>
        /\ snapshot = EmptyMap
        /\ upserted = { Key(t) : t \in Synced }
        /\ deleted = {}
        /\ AtEnd => upserted = DOMAIN Target

\* the end of a cycle whose sink read failed: a record the sink held
\* unchanged was upserted and a record the target lacks is still there
C20_Witness ==
    /\ AtEnd /\ ~readOK
    /\ \E h \in upserted : [ id |-> h, source |-> Target[h] ] \in sink0
    /\ \E d \in sink0 : d.id \notin DOMAIN Target /\ d \in sink

\* C18: no error makes syncLoop stop: when every call returns and the loop
\* is scheduled, a new cycle is started again and again, whatever fetches,
\* sink reads and writes fail.
C18_AlwaysAnotherCycle == []<><<StartCycle>>_vars

\* a cycle started after a failed fetch has itself met a failed fetch, a
\* failed sink read and a failed write, and is at its end
C18_Witness ==
    /\ AtEnd /\ unhealed
    /\ fetchErr # {} /\ ~readOK /\ writeFail

\* ---------------------------------------------------- claims on SpecRetry
\* the documents of an index under one id
Under(index, h) == { d \in index : d.id = h }

\* a cycle with a failed write still reaches its end with every fetched
\* ticket compared and upserted when missing or different and every stale
\* record deleted, and the record whose write failed is as it was when the
\* cycle started: nothing wrote it a second time
WritesGoOn ==
    (AtEnd /\ writeFail) =>
        /\ k = Len(allTickets)
        /\ \A t \in Synced :
              Key(t) \in upserted
                 <=> \/ Key(t) \notin DOMAIN snapshot
                     \/ snapshot[Key(t)] # mapTicketToES(t, t.env)
        /\ deleted = DOMAIN snapshot \ DOMAIN Target
        /\ \A h \in failed : Under(sink, h) = Under(sink0, h)

\* C12 as stated: a failed upsert or delete does not stop the cycle, and the
\* record whose write failed in the previous cycle is written again by this
\* cycle when the source still gives the same for it (the same document to
\* upsert, or still no ticket for a delete), the fetches and the sink read
\* of this cycle having succeeded.
C12_FailedWriteRetried ==
    /\ WritesGoOn
    /\ (AtEnd /\ fetchErr = {} /\ readOK) =>
          \A h \in DOMAIN prevFailed :
             /\ (h \in DOMAIN Target /\ Target[h] = prevFailed[h])
                   => h \in upserted
             /\ (h \notin DOMAIN Target /\ prevFailed[h] = << >>)
                   => h \in deleted

\* C12, amended: a failed upsert or delete does not stop the cycle and is
\* not retried inside it.  A record whose upsert failed is upserted again
\* by the next cycle whose target still holds the same document for it,
\* unless the sink read of that cycle returns the record with that very
\* content; a record whose delete failed is deleted again by the next cycle
\* whose target still lacks it and whose sink read returns it.
C12_FailedWriteRetriedIfStillNeeded ==
    /\ WritesGoOn
    /\ AtEnd =>
          \A h \in DOMAIN prevFailed :
             /\ (/\ h \in DOMAIN Target /\ Target[h] = prevFailed[h]
                 /\ (h \notin DOMAIN snapshot \/ Current[h] # Target[h]))
                   => h \in upserted
             /\ (/\ h \notin DOMAIN Target /\ prevFailed[h] = << >>
                 /\ h \in DOMAIN snapshot)
                   => h \in deleted

\* the end of a cycle that follows one in which an upsert and a delete
\* failed: the upsert was made again and failed again, and the delete was
\* made again after it and removed the record
C12_Witness ==
    /\ AtEnd /\ readOK
    /\ \E h, g \in DOMAIN prevFailed :
          /\ h \in DOMAIN Target /\ Target[h] = prevFailed[h]
          /\ h \in upserted /\ failed = { h }
          /\ prevFailed[g] = << >> /\ g \in deleted
          /\ Under(sink0, g) # {} /\ Under(sink, g) = {}

\* ---------------------------------------------------- claims on SpecTeams
\* caller p has finished a call for a non-empty name that issued a lookup
Looked(p) == ptPc[p] = "done" /\ ptName[p] # "" /\ ptPosts[p] > 0

\* the lookup failed: the remote call gave an error or its body did not parse
LookupFailed(r) == r.kind \in { "postErr", "badBody" }

\* the lookup was answered with nothing to show: an error code, no object or
\* no team name
LookupEmpty(r) ==
    r.kind = "parsed" /\ (r.code # 0 \/ Flatten(r.objects) = << >>)

TokenFirst == \A p \in Callers : ptPosts[p] <= ptTok[p]

Reading == { p \in Callers : ptPc[p] = "read" }

Writing == { p \in Callers : ptPc[p] = "write" }

\* C15: under any interleaving of calls, a caller reads the cache only while
\* it holds the mutex for reading and writes it only while it holds it for
\* writing; a write overlaps no other write and no read.  (Reads may
\* overlap: the witness has two at once.)
C15_CacheAccessUnderLock ==
    /\ Reading \subseteq readers
    /\ \A p \in Writing : writer = p
    /\ Cardinality(Writing) <= 1
    /\ Writing # {} => Reading = {}
    /\ writer # NoOne => readers = {}

\* both callers are reading a cache that holds an entry, while both hold
\* the mutex for reading
C15_Witness ==
    /\ Reading = Callers
    /\ readers = Callers
    /\ DOMAIN personTeamCache # {}

\* a call for a name the cache held when the call began takes no token,
\* issues no lookup, does not write the cache and, its read done, holds the
\* cached value as its result; no name once stored has left the cache
ServedFromCache ==
    /\ \A p \in Callers :
          ptHad[p] =>
             /\ ptTok[p] = 0 /\ ptPosts[p] = 0 /\ ~ptWrote[p]
             /\ ptPc[p] \in { "rlock", "read", "runlock", "done" }
             /\ ptPc[p] = "runlock" =>
                   ptRet[p] = [ team |-> personTeamCache[ptName[p]],
                                err |-> FALSE ]
             /\ ptPc[p] = "done" => (ptRet[p] # NoRet /\ ~ptRet[p].err)
    /\ everCached \subseteq DOMAIN personTeamCache

\* C21: once the cache holds an entry for a name, every later call for that
\* name returns the cached value without taking a token, without a remote
\* lookup and without changing the cache; entries are never removed; and
\* the team value a call returns is never the empty string.
C21_CacheHitFrame ==
    /\ ServedFromCache
    /\ \A p \in Callers : ptRet[p] # NoRet => ptRet[p].team # ""

====
